---------------------------- MODULE Spec2Model ----------------------------
(***************************************************************************)
(* A model of the three maintenance scripts of the SublimeLinter package   *)
(* channel:                                                                *)
(*                                                                         *)
(*   fetch_all_repos.py            load the registry, remove orphaned      *)
(*                                 checkouts, clone / pull / check every   *)
(*                                 package on a thread pool, report, exit  *)
(*   check-if-head-is-released.py  git describe in every checkout          *)
(*   last_updated.py               git log in every checkout               *)
(*                                                                         *)
(* One invocation of a script is a run.  The destination directory         *)
(* (DEST_DIR) is the only state that survives a run.  Every git subprocess *)
(* and every shutil.rmtree has an outcome the script does not control; the *)
(* model takes each outcome the operating system can produce.              *)
(*                                                                         *)
(* A URL is held as the sequence of its '/'-separated segments, so that    *)
(* url.rsplit('/') is that sequence and [-1] its last element.             *)
(*                                                                         *)
(* Not modelled: command-line parsing of DEST_DIR, malformed JSON (the     *)
(* loader aborts the run), and the pool's worker limit (the default pool   *)
(* has at least five threads, more than the packages of any run here).     *)
(***************************************************************************)
EXTENDS Naturals, Sequences, FiniteSets

VARIABLES
    script,      \* which script the current process runs
    pc,          \* position of the main thread: idle, cleanup, pool, exited
    FILES,       \* the registry documents, held while the loader is studied
                 \* on its own; a run reads them once, at start-up
    CHECK_MODE,  \* fetch_all_repos.py: --check was given
    packages,    \* fetch_all_repos.py: the loaded package list
    units,       \* the scan scripts: the directory names submitted
    todo,        \* removed_packages not yet visited by the cleanup loop
    rmErrors,    \* names whose rmtree raised (the errors the loop printed)
    futures,     \* the futures of the pool, in submission order
    results,     \* the collected (then sorted) results
    report,      \* what the report step printed
    exitStatus,  \* exit status of the process
    uncaught,    \* exception that ended the main thread, or "none"
    destExists,  \* DEST_DIR exists
    disk,        \* DEST_DIR: entry name -> kind of entry
    cloned       \* history: packages cloned by an earlier run and kept in
                 \* the registry of every fetch_all_repos run since

vars == <<script, pc, FILES, CHECK_MODE, packages, units, todo, rmErrors,
          futures, results, report, exitStatus, uncaught, destExists, disk,
          cloned>>

----------------------------------------------------------------------------
(* Bounds *)

MaxFiles == 2

MaxPackages == 3

----------------------------------------------------------------------------
(* Values *)

\* Python's None: the value of p.get('name') for an entry without a name.
None == "None"

SL_URL == <<"https:", "", "github.com", "SublimeLinter", "SublimeLinter">>

\* Entries of the "packages" array of a registry document.
Entries ==
    { [details |-> <<"https:", "", "github.com", "SublimeLinter", "Foo">>,
       name |-> None],
      [details |-> <<"https:", "", "github.com", "contrib", "Foo">>,
       name |-> ""],
      [details |-> <<"https:", "", "github.com", "contrib", "linter-bar">>,
       name |-> "Bar"],
      [details |-> SL_URL, name |-> "SublimeLinter"] }

\* Names an entry of DEST_DIR can have, in lexicographic order.
DirNames == <<"Bar", "Foo">>

\* absent:   no entry of that name
\* repo:     a directory with a .git subdirectory
\* dir:      a directory without one
\* dangling: a symbolic link whose target is missing
Kinds == {"absent", "repo", "dir", "dangling"}

\* Exit statuses of a git subprocess: success, and git's fatal error.
ExitCodes == {0, 128}

\* Output of git describe --exact-match --tags, and of git log --format=%aI
\* (author dates, ordered as their ISO strings are).
Tags == {"v1.0.0"}

Dates == {1, 2}

Range(s) == {s[i] : i \in 1..Len(s)}

SeqsUpTo(S, n) == UNION {[1..k -> S] : k \in 0..n}


----------------------------------------------------------------------------
(* Inputs *)

\* files[k] is the "packages" array of the k-th registry document.
SplitAt(flat, cuts) ==
    [k \in 1..(Len(cuts) + 1) |->
        SubSeq(flat,
               (IF k = 1 THEN 0 ELSE cuts[k - 1]) + 1,
               IF k = Len(cuts) + 1 THEN Len(flat) ELSE cuts[k])]

\* Every list of 1..MaxFiles documents holding at most MaxPackages entries.
FileLists ==
    UNION { { SplitAt(flat, cuts) :
                cuts \in { c \in UNION {[1..k -> 0..Len(flat)] : k \in 0..(MaxFiles - 1)} :
                             \A i \in 1..Len(c) : \A j \in 1..Len(c) :
                                 i < j => c[i] <= c[j] } } :
            flat \in SeqsUpTo(Entries, MaxPackages) }

\* States DEST_DIR can be in before a run.
DiskStates == [Range(DirNames) -> Kinds]

----------------------------------------------------------------------------
(* fetch_all_repos.py: functions *)

\* Python truthiness of package['name'].
Truthy(name) == name # None /\ name # ""

get_name(package) ==
    IF Truthy(package.name) THEN package.name ELSE package.url[Len(package.url)]

extract_urls(file) ==
    [i \in 1..Len(file) |-> [url |-> file[i].details, name |-> file[i].name]]

RECURSIVE Chain(_)
Chain(files) ==
    IF files = <<>> THEN <<>>
    ELSE extract_urls(Head(files)) \o Chain(Tail(files))

KeepPackage(package) == package.url # SL_URL

LoadPackages(files) == SelectSeq(Chain(files), KeepPackage)

\* os.listdir(DEST_DIR) as a set.
ListDir(d) == {n \in DOMAIN d : d[n] # "absent"}

\* Mutant: the registry's names are not subtracted.
RemovedPackagesAll(d, pkgs) == ListDir(d)

RemovedPackages(d, pkgs) == ListDir(d) \ {get_name(p) : p \in Range(pkgs)}

\* os.path.exists follows symbolic links.
PathExists(d, n) == d[n] \in {"repo", "dir"}

\* Mutant: the test looks at the checkout directory, not at its .git.
HasGitAnyEntry(d, n) == d[n] # "absent"

\* os.path.exists(os.path.join(dest, name, '.git'))
HasGit(d, n) == d[n] = "repo"

ChooseOp(d, package) == IF HasGit(d, get_name(package)) THEN "pull" ELSE "clone"

\* The wrapper of catch_errors: fn's own result, or the failure record when
\* the subprocess made fn raise CalledProcessError.
catch_errors(fname, package, code, returned) ==
    IF code = 0 THEN returned
    ELSE [mode |-> fname, url |-> package.url, success |-> FALSE]

pull(package, code) ==
    catch_errors("pull", package, code,
                 [mode |-> "pull", url |-> package.url, success |-> TRUE])

clone(package, code) ==
    catch_errors("clone", package, code,
                 [mode |-> "clone", url |-> package.url, success |-> TRUE])

\* git ls-remote writes its diagnostics to stderr, which check_output does
\* not capture: err.output is the empty string.
ErrOutput == ""

NoNameMessage == "No package name specified"

\* Mutant: the missing-name message replaces the list instead of extending it.
CheckMessagesOverwrite(package, code) ==
    IF ~Truthy(package.name) THEN <<NoNameMessage>>
    ELSE IF code # 0 THEN <<ErrOutput>> ELSE <<>>

CheckMessages(package, code) ==
    (IF code # 0 THEN <<ErrOutput>> ELSE <<>>)
    \o (IF ~Truthy(package.name) THEN <<NoNameMessage>> ELSE <<>>)

check(package, code) ==
    [mode |-> "check", url |-> package.url,
     success |-> (CheckMessages(package, code) = <<>>),
     messages |-> CheckMessages(package, code)]

\* r.get('messages', [])
MessagesOf(r) == IF "messages" \in DOMAIN r THEN r.messages ELSE <<>>

IsSuccess(r) == r.success

IsFailure(r) == ~r.success

\* Mutant: the cloned list is filtered by mode alone.
IsClonedAnyOutcome(r) == r.mode = "clone"

IsCloned(r) == r.mode = "clone" /\ r.success

IsPulled(r) == r.mode = "pull" /\ r.success

IsChecked(r) == r.mode = "check" /\ r.success

Failed(rs) == SelectSeq(rs, IsFailure)

FetchReport(check_mode, pkgs, rs) ==
    [found |-> Len(pkgs),
     checked |-> IF check_mode THEN Len(SelectSeq(rs, IsChecked)) ELSE 0,
     cloned |-> IF check_mode THEN 0 ELSE Len(SelectSeq(rs, IsCloned)),
     pulled |-> IF check_mode THEN 0 ELSE Len(SelectSeq(rs, IsPulled)),
     nfailed |-> Len(Failed(rs)),
     failed |-> [i \in 1..Len(Failed(rs)) |->
                    [url |-> Failed(rs)[i].url,
                     messages |-> MessagesOf(Failed(rs)[i])]]]

\* Mutant: the script forgets to set the exit status.
FetchExitNever(rs) == 0

FetchExit(rs) == IF Failed(rs) # <<>> THEN 1 ELSE 0

----------------------------------------------------------------------------
(* The scan scripts: functions *)

describe_head(name, code, tag) ==
    IF code = 0 THEN [name |-> name, tag |-> tag] ELSE [name |-> name]

date_for_head(name, date) == [name |-> name, date |-> date]

NameRank(n) == CHOOSE i \in 1..Len(DirNames) : DirNames[i] = n

\* sorted(seq, key=...): stable, ascending in the keys.
Sorted(s, keys) ==
    LET Before(i, j) == keys[i] < keys[j] \/ (keys[i] = keys[j] /\ i < j)
        Pos(i) == 1 + Cardinality({j \in 1..Len(s) : Before(j, i)})
    IN  [p \in 1..Len(s) |-> s[CHOOSE i \in 1..Len(s) : Pos(i) = p]]

SortByName(rs) == Sorted(rs, [i \in 1..Len(rs) |-> NameRank(rs[i].name)])

SortByDate(rs) == Sorted(rs, [i \in 1..Len(rs) |-> rs[i].date])

HasTag(r) == "tag" \in DOMAIN r

NoTag(r) == "tag" \notin DOMAIN r

ScanReport(rs) ==
    [released |-> SelectSeq(rs, HasTag), pending |-> SelectSeq(rs, NoTag)]

\* Every order in which set(os.listdir(DEST_DIR)) can be iterated.
Orders(S) ==
    {s \in [1..Cardinality(S) -> S] : \A i, j \in 1..Cardinality(S) : i # j => s[i] # s[j]}

----------------------------------------------------------------------------
(* Futures *)

Queued == [state |-> "queued"]

Running(op) == [state |-> "running", op |-> op]

\* The worker returned value; its git subprocess exited with code.
Returned(op, code, value) ==
    [state |-> "done", op |-> op, code |-> code, raised |-> "none", value |-> value]

\* The worker raised e after its git subprocess exited with code.
Raised(op, code, e) ==
    [state |-> "done", op |-> op, code |-> code, raised |-> e]

\* The worker raised e because the subprocess could not be started.
SpawnFailed(op, e) == [state |-> "done", op |-> op, raised |-> e]

IsDone(f) == f.state = "done"

\* Leaving the with-block joins the pool: every future has finished.
AllDone(fs) == \A i \in 1..Len(fs) : IsDone(fs[i])

HasRaised(fs) == \E i \in 1..Len(fs) : fs[i].raised # "none"

\* [f.result() for f in futures] re-raises the first exception it meets.
FirstRaised(fs) ==
    fs[CHOOSE i \in 1..Len(fs) :
          /\ fs[i].raised # "none"
          /\ \A j \in 1..(i - 1) : fs[j].raised = "none"].raised

Collected(fs) == [i \in 1..Len(fs) |-> fs[i].value]

NoReport == [none |-> TRUE]

----------------------------------------------------------------------------
(* State *)

Fresh ==
    /\ script = "none"
    /\ pc = "idle"
    /\ CHECK_MODE = FALSE
    /\ packages = <<>>
    /\ units = <<>>
    /\ todo = {}
    /\ rmErrors = {}
    /\ futures = <<>>
    /\ results = <<>>
    /\ report = NoReport
    /\ exitStatus = 0
    /\ uncaught = "none"

Init ==
    /\ Fresh
    /\ FILES = <<>>
    /\ destExists \in BOOLEAN
    /\ disk \in DiskStates
    /\ ~destExists => \A n \in DOMAIN disk : disk[n] = "absent"
    /\ cloned = {}

----------------------------------------------------------------------------
(* fetch_all_repos.py: the run *)

\* Start-up to the computation of removed_packages.  ensure_dir runs only
\* outside --check; os.listdir raises when DEST_DIR does not exist.
StartFetch(check_mode, files) ==
    /\ pc = "idle"
    /\ script' = "fetch_all_repos"
    /\ CHECK_MODE' = check_mode
    /\ destExists' = (destExists \/ ~check_mode)
    /\ packages' = LoadPackages(files)
    /\ cloned' = cloned \cap Range(packages')
    /\ IF destExists'
       THEN /\ todo' = RemovedPackages(disk, packages')
            /\ pc' = "cleanup"
            /\ UNCHANGED <<exitStatus, uncaught>>
       ELSE /\ todo' = {}
            /\ pc' = "exited"
            /\ exitStatus' = 1
            /\ uncaught' = "FileNotFoundError"
    /\ UNCHANGED <<FILES, units, rmErrors, futures, results, report, disk>>

\* What a failing shutil.rmtree can leave behind: the entry as it was, or
\* the directory with part of its content (its .git included) gone.
AfterFailedRmtree(kind) == {kind, "dir"}

\* One iteration of the loop over removed_packages.
RemoveOrphan(dir) ==
    /\ pc = "cleanup"
    /\ dir \in todo
    /\ todo' = todo \ {dir}
    /\ IF PathExists(disk, dir)
       THEN \/ /\ disk' = [disk EXCEPT ![dir] = "absent"]
               /\ UNCHANGED rmErrors
            \/ /\ \E left \in AfterFailedRmtree(disk[dir]) :
                      disk' = [disk EXCEPT ![dir] = left]
               /\ rmErrors' = rmErrors \cup {dir}
       ELSE UNCHANGED <<disk, rmErrors>>
    /\ UNCHANGED <<script, pc, FILES, CHECK_MODE, packages, units, futures,
                   results, report, exitStatus, uncaught, destExists, cloned>>

\* Mutant: the submission loop skips the first package.
SubmitAllButFirst ==
    /\ pc = "cleanup"
    /\ todo = {}
    /\ futures' = [i \in 1..(IF packages = <<>> THEN 0 ELSE Len(packages) - 1) |-> Queued]
    /\ pc' = "pool"
    /\ UNCHANGED <<script, FILES, CHECK_MODE, packages, units, todo, rmErrors,
                   results, report, exitStatus, uncaught, destExists, disk,
                   cloned>>

\* executor.submit for every package.
Submit ==
    /\ pc = "cleanup"
    /\ todo = {}
    /\ futures' = [i \in 1..Len(packages) |-> Queued]
    /\ pc' = "pool"
    /\ UNCHANGED <<script, FILES, CHECK_MODE, packages, units, todo, rmErrors,
                   results, report, exitStatus, uncaught, destExists, disk,
                   cloned>>

\* action: check, or clone_or_pull up to its choice between pull and clone.
FetchOp(check_mode, d, package) ==
    IF check_mode THEN "check" ELSE ChooseOp(d, package)

StartWorker(i) ==
    /\ pc = "pool"
    /\ script = "fetch_all_repos"
    /\ i \in 1..Len(futures)
    /\ futures[i] = Queued
    /\ futures' = [futures EXCEPT ![i] = Running(FetchOp(CHECK_MODE, disk, packages[i]))]
    /\ UNCHANGED <<script, pc, FILES, CHECK_MODE, packages, units, todo,
                   rmErrors, results, report, exitStatus, uncaught,
                   destExists, disk, cloned>>

\* git clone succeeds only into a missing or empty directory.
CanClone(d, n) == d[n] \in {"absent", "dir"}

FinishClone(i, code) ==
    /\ pc = "pool"
    /\ i \in 1..Len(futures)
    /\ futures[i] = Running("clone")
    /\ code = 0 => CanClone(disk, get_name(packages[i]))
    /\ futures' = [futures EXCEPT ![i] = Returned("clone", code, clone(packages[i], code))]
    /\ disk' = IF code = 0
               THEN [disk EXCEPT ![get_name(packages[i])] = "repo"]
               ELSE disk
    /\ UNCHANGED <<script, pc, FILES, CHECK_MODE, packages, units, todo,
                   rmErrors, results, report, exitStatus, uncaught,
                   destExists, cloned>>

FinishPull(i, code) ==
    /\ pc = "pool"
    /\ i \in 1..Len(futures)
    /\ futures[i] = Running("pull")
    /\ futures' = [futures EXCEPT ![i] = Returned("pull", code, pull(packages[i], code))]
    /\ UNCHANGED <<script, pc, FILES, CHECK_MODE, packages, units, todo,
                   rmErrors, results, report, exitStatus, uncaught,
                   destExists, disk, cloned>>

FinishCheck(i, code) ==
    /\ pc = "pool"
    /\ i \in 1..Len(futures)
    /\ futures[i] = Running("check")
    /\ futures' = [futures EXCEPT ![i] = Returned("check", code, check(packages[i], code))]
    /\ UNCHANGED <<script, pc, FILES, CHECK_MODE, packages, units, todo,
                   rmErrors, results, report, exitStatus, uncaught,
                   destExists, disk, cloned>>

\* An exception out of f.result() ends the script with a traceback.
Crash(e) ==
    /\ pc' = "exited"
    /\ exitStatus' = 1
    /\ uncaught' = e
    /\ UNCHANGED <<results, report>>

ClonedNow(check_mode, pkgs, rs) ==
    IF check_mode THEN {}
    ELSE {pkgs[i] : i \in {j \in 1..Len(rs) : IsCloned(rs[j])}}

\* The end of the with-block, the collection of the results, the report
\* and the exit status.
ReportFetch ==
    /\ pc = "pool"
    /\ script = "fetch_all_repos"
    /\ AllDone(futures)
    /\ IF HasRaised(futures)
       THEN /\ Crash(FirstRaised(futures))
            /\ UNCHANGED cloned
       ELSE /\ results' = Collected(futures)
            /\ report' = FetchReport(CHECK_MODE, packages, results')
            /\ exitStatus' = FetchExit(results')
            /\ pc' = "exited"
            /\ cloned' = cloned \cup ClonedNow(CHECK_MODE, packages, results')
            /\ UNCHANGED uncaught
    /\ UNCHANGED <<script, FILES, CHECK_MODE, packages, units, todo, rmErrors,
                   futures, destExists, disk>>

\* The process is gone, and its memory with it; DEST_DIR stays.
Terminate ==
    /\ pc = "exited"
    /\ script' = "none"
    /\ pc' = "idle"
    /\ CHECK_MODE' = FALSE
    /\ packages' = <<>>
    /\ units' = <<>>
    /\ todo' = {}
    /\ rmErrors' = {}
    /\ futures' = <<>>
    /\ results' = <<>>
    /\ report' = NoReport
    /\ exitStatus' = 0
    /\ uncaught' = "none"
    /\ UNCHANGED <<FILES, destExists, disk, cloned>>

----------------------------------------------------------------------------
(* check-if-head-is-released.py and last_updated.py: the run *)

ScanScripts == {"check_if_head_is_released", "last_updated"}

ScanOp(s) == IF s = "last_updated" THEN "date_for_head" ELSE "describe_head"

\* Start-up to the end of the submissions, one per name of DEST_DIR.
StartScan(s, order) ==
    /\ pc = "idle"
    /\ s \in ScanScripts
    /\ script' = s
    /\ IF destExists
       THEN /\ order \in Orders(ListDir(disk))
            /\ units' = order
            /\ futures' = [i \in 1..Len(order) |-> Queued]
            /\ pc' = "pool"
            /\ UNCHANGED <<exitStatus, uncaught>>
       ELSE /\ order = <<>>
            /\ pc' = "exited"
            /\ exitStatus' = 1
            /\ uncaught' = "FileNotFoundError"
            /\ UNCHANGED <<units, futures>>
    /\ UNCHANGED <<FILES, CHECK_MODE, packages, todo, rmErrors, results,
                   report, destExists, disk, cloned>>

StartScanWorker(i) ==
    /\ pc = "pool"
    /\ script \in ScanScripts
    /\ i \in 1..Len(futures)
    /\ futures[i] = Queued
    /\ futures' = [futures EXCEPT ![i] = Running(ScanOp(script))]
    /\ UNCHANGED <<script, pc, FILES, CHECK_MODE, packages, units, todo,
                   rmErrors, results, report, exitStatus, uncaught,
                   destExists, disk, cloned>>

\* subprocess cannot start git in a cwd that is not a directory.
FinishNoCwd(i) ==
    /\ pc = "pool"
    /\ script \in ScanScripts
    /\ i \in 1..Len(futures)
    /\ futures[i].state = "running"
    /\ ~PathExists(disk, units[i])
    /\ futures' = [futures EXCEPT ![i] = SpawnFailed(futures[i].op, "OSError")]
    /\ UNCHANGED <<script, pc, FILES, CHECK_MODE, packages, units, todo,
                   rmErrors, results, report, exitStatus, uncaught,
                   destExists, disk, cloned>>

FinishDescribe(i, code, tag) ==
    /\ pc = "pool"
    /\ i \in 1..Len(futures)
    /\ futures[i] = Running("describe_head")
    /\ PathExists(disk, units[i])
    /\ futures' = [futures EXCEPT ![i] =
                      Returned("describe_head", code, describe_head(units[i], code, tag))]
    /\ UNCHANGED <<script, pc, FILES, CHECK_MODE, packages, units, todo,
                   rmErrors, results, report, exitStatus, uncaught,
                   destExists, disk, cloned>>

\* execute raises CalledProcessError on a non-zero exit; date_for_head has
\* no handler for it.
DateOutcome(name, code, date) ==
    IF code = 0
    THEN Returned("date_for_head", code, date_for_head(name, date))
    ELSE Raised("date_for_head", code, "CalledProcessError")

FinishDate(i, code, date) ==
    /\ pc = "pool"
    /\ i \in 1..Len(futures)
    /\ futures[i] = Running("date_for_head")
    /\ PathExists(disk, units[i])
    /\ futures' = [futures EXCEPT ![i] = DateOutcome(units[i], code, date)]
    /\ UNCHANGED <<script, pc, FILES, CHECK_MODE, packages, units, todo,
                   rmErrors, results, report, exitStatus, uncaught,
                   destExists, disk, cloned>>

ScanSorted(s, rs) == IF s = "last_updated" THEN SortByDate(rs) ELSE SortByName(rs)

ScanPrinted(s, rs) == IF s = "last_updated" THEN [lines |-> rs] ELSE ScanReport(rs)

\* The end of the with-block, the collection, the sort and the listing.
ReportScan ==
    /\ pc = "pool"
    /\ script \in ScanScripts
    /\ AllDone(futures)
    /\ IF HasRaised(futures)
       THEN Crash(FirstRaised(futures))
       ELSE /\ results' = ScanSorted(script, Collected(futures))
            /\ report' = ScanPrinted(script, results')
            /\ exitStatus' = 0
            /\ pc' = "exited"
            /\ UNCHANGED uncaught
    /\ UNCHANGED <<script, FILES, CHECK_MODE, packages, units, todo, rmErrors,
                   futures, destExists, disk, cloned>>

----------------------------------------------------------------------------
(* Specification *)

Next ==
    \/ /\ pc = "idle"
       /\ \E check_mode \in BOOLEAN : \E files \in FileLists : StartFetch(check_mode, files)
    \/ \E dir \in Range(DirNames) : RemoveOrphan(dir)
    \/ Submit
    \/ \E i \in 1..MaxPackages : StartWorker(i)
    \/ \E i \in 1..MaxPackages : \E code \in ExitCodes : FinishClone(i, code)
    \/ \E i \in 1..MaxPackages : \E code \in ExitCodes : FinishPull(i, code)
    \/ \E i \in 1..MaxPackages : \E code \in ExitCodes : FinishCheck(i, code)
    \/ ReportFetch
    \/ \E s \in ScanScripts : \E order \in SeqsUpTo(Range(DirNames), Len(DirNames)) :
          StartScan(s, order)
    \/ \E i \in 1..Len(DirNames) : StartScanWorker(i)
    \/ \E i \in 1..Len(DirNames) : FinishNoCwd(i)
    \/ \E i \in 1..Len(DirNames) : \E code \in ExitCodes : \E tag \in Tags :
          FinishDescribe(i, code, tag)
    \/ \E i \in 1..Len(DirNames) : \E code \in ExitCodes : \E date \in Dates :
          FinishDate(i, code, date)
    \/ ReportScan
    \/ Terminate

Spec == Init /\ [][Next]_vars

----------------------------------------------------------------------------
(* The registry loader on its own *)

LoaderInit ==
    /\ Fresh
    /\ FILES \in FileLists
    /\ destExists = TRUE
    /\ disk = [n \in Range(DirNames) |-> "absent"]
    /\ cloned = {}

\* packages = [package for file in FILES for package in extract_urls(file)
\*             if package['url'] != SL_URL]
Load ==
    /\ pc = "idle"
    /\ packages' = LoadPackages(FILES)
    /\ pc' = "loaded"
    /\ UNCHANGED <<script, FILES, CHECK_MODE, units, todo, rmErrors, futures,
                   results, report, exitStatus, uncaught, destExists, disk,
                   cloned>>

LoaderNext == Load

SpecLoader == LoaderInit /\ [][LoaderNext]_vars

----------------------------------------------------------------------------
(* Properties *)

FetchReported ==
    script = "fetch_all_repos" /\ pc = "exited" /\ uncaught = "none"

DisplayNames == {get_name(p) : p \in Range(packages)}

\* C1: a fetch_all_repos run that reaches the report exits with status 1
\* exactly when some collected result has success = false, and with status 0
\* when every result has success = true.
C1_ExitStatus ==
    FetchReported =>
        /\ exitStatus = 1 <=> \E i \in 1..Len(results) : ~results[i].success
        /\ (\A i \in 1..Len(results) : results[i].success) => exitStatus = 0

C1_Witness ==
    /\ FetchReported
    /\ exitStatus = 1
    /\ \E i \in 1..Len(results) : ~results[i].success
    /\ \E i \in 1..Len(results) : results[i].success

\* C2: in every script, a git subprocess that exits non-zero never makes the
\* worker raise: the future holds a record, and no run ends with
\* CalledProcessError reaching the main thread.
C2_NoWorkerRaises ==
    /\ uncaught # "CalledProcessError"
    /\ \A i \in 1..Len(futures) :
          (IsDone(futures[i]) /\ "code" \in DOMAIN futures[i] /\ futures[i].code # 0)
              => futures[i].raised = "none"

\* C3: fetch_all_repos submits one unit per loaded package and reports only
\* after all of them have run: results[i] is the record of packages[i],
\* whichever units failed.
C3_OneRecordPerPackage ==
    /\ (script = "fetch_all_repos" /\ pc = "pool") => Len(futures) = Len(packages)
    /\ (script = "fetch_all_repos" /\ pc = "exited") =>
          uncaught \in {"none", "FileNotFoundError"}
    /\ FetchReported =>
          /\ Len(results) = Len(packages)
          /\ Len(futures) = Len(packages)
          /\ \A i \in 1..Len(packages) :
                /\ IsDone(futures[i])
                /\ "code" \in DOMAIN futures[i]
                /\ results[i] = futures[i].value
                /\ results[i].url = packages[i].url

C3_Witness ==
    /\ FetchReported
    /\ Len(packages) >= 2
    /\ ~results[1].success
    /\ results[2].success

\* C4: a --check run leaves DEST_DIR as it found it: no step of the run
\* creates, changes or removes an entry.
C4_CheckReadOnly ==
    [][(script' = "fetch_all_repos" /\ CHECK_MODE')
          => (disk' = disk /\ destExists' = destExists)]_vars

\* C5: in clone/pull mode any two distinct submitted packages have different
\* display names, so no two running workers share a subdirectory.
C5_DisjointWorkers ==
    (script = "fetch_all_repos" /\ ~CHECK_MODE /\ pc = "pool") =>
        \A i \in 1..Len(packages) : \A j \in 1..Len(packages) :
            (/\ i # j
             /\ packages[i] # packages[j]
             /\ futures[i].state = "running"
             /\ futures[j].state = "running")
                => get_name(packages[i]) # get_name(packages[j])

\* C6: the loader's output holds no descriptor with the self-referential
\* URL, holds every other descriptor of every input file, and holds no two
\* descriptors with the same URL.
C6_Deduplicated ==
    pc = "loaded" =>
        /\ \A i \in 1..Len(packages) : packages[i].url # SL_URL
        /\ \A k \in 1..Len(FILES) : \A e \in 1..Len(FILES[k]) :
              FILES[k][e].details # SL_URL =>
                  \E i \in 1..Len(packages) :
                      /\ packages[i].url = FILES[k][e].details
                      /\ packages[i].name = FILES[k][e].name
        /\ \A i \in 1..Len(packages) : \A j \in 1..Len(packages) :
              i # j => packages[i].url # packages[j].url

CleanupOver ==
    script = "fetch_all_repos" /\ (pc = "pool" \/ (pc = "exited" /\ uncaught = "none"))

\* An error raised by one removal does not end the run, and leaves the rest
\* of the loop and the fan-out to come.
CleanupGoesOn ==
    /\ (script = "fetch_all_repos" /\ rmErrors # {}) => uncaught = "none"
    /\ (pc = "cleanup" /\ rmErrors # {}) =>
          /\ \A dir \in todo : ENABLED RemoveOrphan(dir)
          /\ todo = {} => ENABLED Submit

\* No entry named like a package of the registry is touched by the cleanup.
CleanupSparesPackages ==
    [][pc = "cleanup" => \A n \in DisplayNames : disk'[n] = disk[n]]_vars

\* C7 as stated: after the cleanup every entry of DEST_DIR that is not named
\* like a package of the registry is gone unless its removal raised; an
\* error raised by one removal does not end the run.  (Its clause on the
\* entries named like a package is CleanupSparesPackages.)
C7_EveryOrphanRemoved ==
    /\ CleanupOver =>
          \A n \in DOMAIN disk :
              (n \notin DisplayNames /\ disk[n] # "absent") => n \in rmErrors
    /\ CleanupGoesOn

\* C7, amended: after the cleanup every entry of DEST_DIR that is not named
\* like a package of the registry is gone unless its removal raised or
\* os.path.exists denies it (a dangling symbolic link, which the loop skips);
\* no entry named like a package is touched; an error raised by one removal
\* does not end the run.
C7_OrphanCleanup ==
    /\ [](CleanupOver =>
            \A n \in DOMAIN disk :
                (n \notin DisplayNames /\ disk[n] # "absent")
                    => (n \in rmErrors \/ disk[n] = "dangling"))
    /\ []CleanupGoesOn
    /\ CleanupSparesPackages

C7_Witness ==
    /\ script = "fetch_all_repos"
    /\ pc = "pool"
    /\ \E n \in DOMAIN disk : n \in rmErrors /\ disk[n] # "absent"
    /\ \E n \in DOMAIN disk : n \notin rmErrors /\ n \notin DisplayNames /\ disk[n] = "absent"
    /\ destExists

\* C8: in --check mode a record has success = true exactly when git
\* ls-remote exited with zero and the descriptor has a non-empty name; each
\* defect alone gives a failure with a message, both give both messages.
C8_CheckRecord ==
    \A i \in 1..Len(futures) :
        (IsDone(futures[i]) /\ futures[i].op = "check") =>
            LET r == futures[i].value
                named == packages[i].name \notin {None, ""}
                zero == futures[i].code = 0
            IN  /\ r.success <=> (zero /\ named)
                /\ ~r.success => r.messages # <<>>
                /\ (~zero /\ ~named) => r.messages = <<ErrOutput, NoNameMessage>>
                /\ r.mode = "check" /\ r.url = packages[i].url

C8_Witness ==
    \E i \in 1..Len(futures) :
        /\ IsDone(futures[i])
        /\ futures[i].op = "check"
        /\ futures[i].code # 0
        /\ packages[i].name \in {None, ""}
        /\ Len(futures[i].value.messages) = 2

\* A unit failed: its git subprocess exited non-zero or, under --check, its
\* descriptor has no name.
UnitFailed(i) ==
    \/ futures[i].code # 0
    \/ CHECK_MODE /\ packages[i].name \in {None, ""}

Successes == IF CHECK_MODE THEN report.checked ELSE report.cloned + report.pulled

\* C9: the report counts every package once: the failures are the units that
\* failed, the successes the units that succeeded, and together they are the
\* 'Found' count.
C9_ReportAccounts ==
    FetchReported =>
        /\ report.found = Len(packages)
        /\ report.nfailed = Cardinality({i \in 1..Len(packages) : UnitFailed(i)})
        /\ Successes = Cardinality({i \in 1..Len(packages) : ~UnitFailed(i)})
        /\ Successes + report.nfailed = report.found

C9_Witness ==
    /\ FetchReported
    /\ ~CHECK_MODE
    /\ report.found = 3
    /\ report.cloned + report.pulled = 2
    /\ report.nfailed = 1
    /\ exitStatus = 1

ClonePullRun == script = "fetch_all_repos" /\ ~CHECK_MODE /\ pc = "pool"

\* C10: in clone/pull mode the worker pulls when the checkout's .git existed
\* as it started and clones otherwise, its record carries that mode whether
\* it succeeds or fails, and a package cloned by an earlier run and kept in
\* the registry since is pulled, never cloned.
C10_ModeByCheckout ==
    /\ [](ClonePullRun =>
            \A i \in 1..Len(futures) :
                /\ (futures[i].state # "queued" /\ packages[i] \in cloned)
                      => futures[i].op = "pull"
                /\ IsDone(futures[i]) => futures[i].value.mode = futures[i].op)
    /\ [][(ClonePullRun /\ pc' = "pool") =>
            \A i \in 1..Len(futures) :
                (futures[i].state = "queued" /\ futures'[i].state = "running")
                    => futures'[i].op =
                          (IF disk[get_name(packages[i])] = "repo" THEN "pull" ELSE "clone")]_vars

C10_Witness ==
    /\ ClonePullRun
    /\ \E i \in 1..Len(futures) :
          /\ packages[i] \in cloned
          /\ IsDone(futures[i])
          /\ futures[i].value.mode = "pull"
          /\ futures[i].code # 0

============================================================================
